---- MODULE Spec2Model ----
(***************************************************************************)
(* Expense Management MCP server (src/mcp_server/server.py).               *)
(*                                                                         *)
(* The store is one SQLite file with two tables, categories and expenses.  *)
(* Every tool opens a connection, runs its statement(s), commits and       *)
(* returns a string.  A table is modelled as the set of its rows (rows are *)
(* records, the primary key id is unique), an Optional argument or a       *)
(* nullable column as a sequence of length 0 (None / NULL) or 1, and a     *)
(* returned string as the record `ret` of its parts.  Amounts are          *)
(* integers (exact arithmetic; binary floating point rounding is not       *)
(* modelled).                                                              *)
(***************************************************************************)
EXTENDS Integers, Sequences, FiniteSets

VARIABLES categories, expenses, clock, ret, pc

vars == <<categories, expenses, clock, ret, pc>>

\* ---------------------------------------------------------------- bounds
MaxCategories == 2
MaxExpenses == 2
MaxClock == 1

\* ---------------------------------------------------------------- inputs
None == <<>>
Some(v) == <<v>>

\* the documented statuses
Statuses == {"pending", "paid", "cancelled"}
Clients == {"c1", "c2"}
\* ids a caller may name: those the store can hold and one it never holds
ExpenseIdArgs == 1..(MaxExpenses + 1)
\* category ids a caller may name; one matches no category until it is created
CategoryIdArgs == 1..MaxCategories

\* ------------------------------------------------------------- SQL helpers
RECURSIVE SumAmount(_)
SumAmount(rows) ==
    IF rows = {} THEN 0
    ELSE LET r == CHOOSE x \in rows : TRUE
         IN  r.amount + SumAmount(rows \ {r})

MaxId(rows) ==
    IF rows = {} THEN 0
    ELSE CHOOSE m \in {r.id : r \in rows} : \A r \in rows : r.id <= m

\* the rowid SQLite gives an inserted row: one more than the largest in use
lastrowid(rows) == MaxId(rows) + 1

\* ORDER BY created_at DESC; rows of one timestamp stay in rowid order
CreatedDesc(a, b) ==
    \/ a.created_at > b.created_at
    \/ a.created_at = b.created_at /\ a.id < b.id

RECURSIVE OrderByCreatedDesc(_)
OrderByCreatedDesc(rows) ==
    IF rows = {} THEN <<>>
    ELSE LET first == CHOOSE a \in rows : \A b \in rows \ {a} : CreatedDesc(a, b)
         IN  <<first>> \o OrderByCreatedDesc(rows \ {first})

\* ORDER BY total_spent DESC; equal totals stay in group (c.id) order
TotalDesc(a, b) ==
    \/ a.total_spent > b.total_spent
    \/ a.total_spent = b.total_spent /\ a.id < b.id

RECURSIVE OrderByTotalDesc(_)
OrderByTotalDesc(rows) ==
    IF rows = {} THEN <<>>
    ELSE LET first == CHOOSE a \in rows : \A b \in rows \ {a} : TotalDesc(a, b)
         IN  <<first>> \o OrderByTotalDesc(rows \ {first})

\* variant: the join without its status condition
PaidJoinAnyStatus(c, exps) == {e \in exps : e.category_id = c.id}

\* LEFT JOIN expenses e ON c.id = e.category_id AND e.status = 'paid'
PaidJoin(c, exps) == {e \in exps : e.category_id = c.id /\ e.status = "paid"}

Range(s) == {s[i] : i \in 1..Len(s)}

\* ------------------------------------------------------------------ state
Idle == [state |-> "idle"]

\* a response: the tool that returned, which message, the id it names, the
\* summary's total_spending, the cursor's rowcount, and the JSON array's elements
NoRet ==
    [tool |-> "none", msg |-> "none", id |-> 0, total |-> 0, rowcount |-> 0,
     rows |-> <<>>]

Init ==
    /\ categories = {}
    /\ expenses = {}
    /\ clock = 0
    /\ ret = NoRet
    /\ pc = [p \in Clients |-> Idle]

\* CURRENT_TIMESTAMP has a resolution of one second: it may or may not have
\* advanced between two calls
Tick ==
    /\ clock < MaxClock
    /\ clock' = clock + 1
    /\ UNCHANGED <<categories, expenses, ret, pc>>

\* ---------------------------------------------------------- category tools
\* variant: an inner JOIN, which drops the categories no paid expense references
ListCategoriesRowsInnerJoin(cats, exps) ==
    OrderByCreatedDesc({ [id |-> c.id, name |-> c.name, description |-> c.description,
                          budget_limit |-> c.budget_limit, created_at |-> c.created_at,
                          total_spent |-> SumAmount(PaidJoin(c, exps))] :
                         c \in {x \in cats : PaidJoin(x, exps) # {}} })

\* SELECT c.*, COALESCE(SUM(e.amount), 0) ... GROUP BY c.id ORDER BY c.created_at DESC
ListCategoriesRows(cats, exps) ==
    OrderByCreatedDesc({ [id |-> c.id, name |-> c.name, description |-> c.description,
                          budget_limit |-> c.budget_limit, created_at |-> c.created_at,
                          total_spent |-> SumAmount(PaidJoin(c, exps))] : c \in cats })

list_categories ==
    /\ ret' = [tool |-> "list_categories", msg |-> "json", id |-> 0, total |-> 0, rowcount |-> 0,
               rows |-> ListCategoriesRows(categories, expenses)]
    /\ UNCHANGED <<categories, expenses, clock, pc>>

create_category(name, description, budget) ==
    /\ Cardinality(categories) < MaxCategories
    /\ LET category_id == lastrowid(categories)
       IN  /\ categories' = categories \cup
                  {[id |-> category_id, name |-> name, description |-> description,
                    budget_limit |-> budget, created_at |-> clock]}
           /\ ret' = [tool |-> "create_category", msg |-> "created", id |-> category_id,
                      total |-> 0, rowcount |-> 1, rows |-> <<>>]
    /\ UNCHANGED <<expenses, clock, pc>>

\* ----------------------------------------------------------- expense tools
\* variant: `if category_id:`, false for None and for 0
CategoryFilterTruthy(category_id) == category_id # None /\ category_id # Some(0)

\* SELECT * FROM expenses WHERE 1=1 [AND category_id = ?] [AND status = ?]
\* ORDER BY created_at DESC.  The status filter is added under `if status:`,
\* which is false for None and for the empty string.
CategoryFilterApplied(category_id) == category_id # None

StatusFilterApplied(status) == status # None /\ status # Some("")

ListExpensesRows(exps, category_id, status) ==
    OrderByCreatedDesc({ e \in exps :
        /\ CategoryFilterApplied(category_id) => e.category_id = category_id[1]
        /\ StatusFilterApplied(status) => e.status = status[1] })

list_expenses(category_id, status) ==
    /\ ret' = [tool |-> "list_expenses", msg |-> "json", id |-> 0, total |-> 0, rowcount |-> 0,
               rows |-> ListExpensesRows(expenses, category_id, status)]
    /\ UNCHANGED <<categories, expenses, clock, pc>>

\* variant: the row is inserted as already paid
InsertedStatusPaid == "paid"

\* INSERT INTO expenses (...) VALUES (?, ?, ?, ?, ?, 'pending')
InsertedStatus == "pending"

InsertExpense(exps, company_name, amount, category_id, sales_email, due_date, now) ==
    exps \cup {[id |-> lastrowid(exps), category_id |-> category_id,
                company_name |-> company_name, amount |-> amount,
                sales_email |-> sales_email, due_date |-> due_date,
                status |-> InsertedStatus, invoice_url |-> None, created_at |-> now]}

create_expense(company_name, amount, category_id, sales_email, due_date) ==
    /\ Cardinality(expenses) < MaxExpenses
    /\ expenses' = InsertExpense(expenses, company_name, amount, category_id,
                                 sales_email, due_date, clock)
    /\ ret' = [tool |-> "create_expense", msg |-> "created", id |-> lastrowid(expenses),
               total |-> 0, rowcount |-> 1, rows |-> <<>>]
    /\ UNCHANGED <<categories, clock, pc>>

\* SELECT * FROM expenses WHERE id = ?
SelectById(exps, id) == {e \in exps : e.id = id}

GetExpenseRet(exps, id) ==
    IF SelectById(exps, id) = {}
    THEN [tool |-> "get_expense", msg |-> "not_found", id |-> id, total |-> 0, rowcount |-> 0,
          rows |-> <<>>]
    ELSE [tool |-> "get_expense", msg |-> "json", id |-> id, total |-> 0, rowcount |-> 0,
          rows |-> <<CHOOSE e \in SelectById(exps, id) : TRUE>>]

get_expense(id) ==
    /\ ret' = GetExpenseRet(expenses, id)
    /\ UNCHANGED <<categories, expenses, clock, pc>>

\* the arguments of update_expense other than id, each None or Some(value)
NoArgs ==
    [company_name |-> None, amount |-> None, category_id |-> None,
     sales_email |-> None, due_date |-> None, status |-> None]

UpdateFields == {"company_name", "amount", "category_id", "sales_email", "due_date", "status"}

\* the columns the dynamically built SET clause names: `if x is not None`
Updates(args) == {f \in UpdateFields : args[f] # None}

\* due_date is a nullable column: the stored value of Some(d) is Some(d)
SetColumn(e, f, v) ==
    IF f = "due_date" THEN [e EXCEPT !.due_date = Some(v)] ELSE [e EXCEPT ![f] = v]

RECURSIVE SetColumns(_, _, _)
SetColumns(e, fields, args) ==
    IF fields = {} THEN e
    ELSE LET f == CHOOSE x \in fields : TRUE
         IN  SetColumns(SetColumn(e, f, args[f][1]), fields \ {f}, args)

\* variant: the UPDATE without its WHERE clause
UpdateEveryRow(exps, id, args) ==
    {SetColumns(e, Updates(args), args) : e \in exps}

\* UPDATE expenses SET ... WHERE id = ?
UpdateWhereId(exps, id, args) ==
    {IF e.id = id THEN SetColumns(e, Updates(args), args) ELSE e : e \in exps}

\* variant: the SET clause is built, and found empty, before the existence check
update_expense_builds_first(id, args) ==
    /\ IF Updates(args) = {}
       THEN /\ ret' = [tool |-> "update_expense", msg |-> "no_fields", id |-> id,
                       total |-> 0, rowcount |-> 0, rows |-> <<>>]
            /\ UNCHANGED expenses
       ELSE IF SelectById(expenses, id) = {}
       THEN /\ ret' = [tool |-> "update_expense", msg |-> "not_found", id |-> id,
                       total |-> 0, rowcount |-> 0, rows |-> <<>>]
            /\ UNCHANGED expenses
       ELSE /\ expenses' = UpdateWhereId(expenses, id, args)
            /\ ret' = [tool |-> "update_expense", msg |-> "updated", id |-> id,
                       total |-> 0, rowcount |-> 1, rows |-> <<>>]
    /\ UNCHANGED <<categories, clock, pc>>

\* the whole handler, one call with no other call in between
update_expense(id, args) ==
    /\ IF SelectById(expenses, id) = {}
       THEN /\ ret' = [tool |-> "update_expense", msg |-> "not_found", id |-> id,
                       total |-> 0, rowcount |-> 0, rows |-> <<>>]
            /\ UNCHANGED expenses
       ELSE IF Updates(args) = {}
       THEN /\ ret' = [tool |-> "update_expense", msg |-> "no_fields", id |-> id,
                       total |-> 0, rowcount |-> 0, rows |-> <<>>]
            /\ UNCHANGED expenses
       ELSE /\ expenses' = UpdateWhereId(expenses, id, args)
            /\ ret' = [tool |-> "update_expense", msg |-> "updated", id |-> id,
                       total |-> 0, rowcount |-> Cardinality(SelectById(expenses, id)), rows |-> <<>>]
    /\ UNCHANGED <<categories, clock, pc>>

\* variant: the message does not depend on cursor.rowcount
delete_expense_ignores_rowcount(id) ==
    /\ expenses' = {e \in expenses : e.id # id}
    /\ ret' = [tool |-> "delete_expense", msg |-> "deleted", id |-> id, total |-> 0,
               rowcount |-> Cardinality({e \in expenses : e.id = id}), rows |-> <<>>]
    /\ UNCHANGED <<categories, clock, pc>>

\* DELETE FROM expenses WHERE id = ?; the message is chosen by cursor.rowcount
DeleteWhereId(exps, id) == {e \in exps : e.id # id}

delete_expense(id) ==
    /\ expenses' = DeleteWhereId(expenses, id)
    /\ LET rowcount == Cardinality(SelectById(expenses, id))
       IN  ret' = [tool |-> "delete_expense",
                   msg |-> IF rowcount = 0 THEN "not_found" ELSE "deleted",
                   id |-> id, total |-> 0, rowcount |-> rowcount, rows |-> <<>>]
    /\ UNCHANGED <<categories, clock, pc>>

\* --------------------------------------------------------- analytics tools
\* variant: GROUP BY c.name, one row for the categories of one name
SummaryRowsGroupByName(cats, exps) ==
    OrderByTotalDesc({ [id |-> c.id, category |-> c.name, budget |-> c.budget_limit,
                        total_spent |->
                            SumAmount(UNION {PaidJoin(d, exps) : d \in {x \in cats : x.name = c.name}}),
                        expense_count |->
                            Cardinality(UNION {PaidJoin(d, exps) : d \in {x \in cats : x.name = c.name}})] :
                       c \in {x \in cats : \A y \in cats : y.name = x.name => x.id <= y.id} })

\* SELECT c.name, c.budget_limit, COALESCE(SUM(e.amount), 0), COUNT(e.id)
\* ... GROUP BY c.id ORDER BY total_spent DESC.  The group key id is kept here
\* to order equal totals; the returned entry has the four fields of Entry.
SummaryRows(cats, exps) ==
    OrderByTotalDesc({ [id |-> c.id, category |-> c.name, budget |-> c.budget_limit,
                        total_spent |-> SumAmount(PaidJoin(c, exps)),
                        expense_count |-> Cardinality(PaidJoin(c, exps))] : c \in cats })

Entry(row) ==
    [category |-> row.category, total_spent |-> row.total_spent,
     expense_count |-> row.expense_count, budget |-> row.budget]

RECURSIVE TotalSpending(_)
TotalSpending(rows) ==
    IF rows = <<>> THEN 0 ELSE Head(rows).total_spent + TotalSpending(Tail(rows))

SpendingSummary(cats, exps) ==
    [total_spending |-> TotalSpending(SummaryRows(cats, exps)),
     by_category |-> [i \in 1..Len(SummaryRows(cats, exps)) |->
                         Entry(SummaryRows(cats, exps)[i])]]

get_spending_summary ==
    /\ ret' = [tool |-> "get_spending_summary", msg |-> "json", id |-> 0,
               total |-> SpendingSummary(categories, expenses).total_spending,
               rowcount |-> 0,
               rows |-> SpendingSummary(categories, expenses).by_category]
    /\ UNCHANGED <<categories, expenses, clock, pc>>

\* ------------------------------------------------ update_expense, statement by statement
\* The handler runs two statements on its connection, `SELECT id ... WHERE id = ?`
\* and, later, `UPDATE ... WHERE id = ?` with a commit; no transaction spans the
\* two, so statements of other connections may run in between.
update_expense_select(p, id, args) ==
    /\ pc[p] = Idle
    /\ IF SelectById(expenses, id) = {}
       THEN /\ ret' = [tool |-> "update_expense", msg |-> "not_found", id |-> id,
                       total |-> 0, rowcount |-> 0, rows |-> <<>>]
            /\ UNCHANGED pc
       ELSE /\ pc' = [pc EXCEPT ![p] = [state |-> "selected", id |-> id, args |-> args]]
            /\ UNCHANGED ret
    /\ UNCHANGED <<categories, expenses, clock>>

update_expense_write(p) ==
    /\ pc[p] # Idle
    /\ IF Updates(pc[p].args) = {}
       THEN /\ ret' = [tool |-> "update_expense", msg |-> "no_fields", id |-> pc[p].id,
                       total |-> 0, rowcount |-> 0, rows |-> <<>>]
            /\ UNCHANGED expenses
       ELSE /\ expenses' = UpdateWhereId(expenses, pc[p].id, pc[p].args)
            /\ ret' = [tool |-> "update_expense", msg |-> "updated", id |-> pc[p].id,
                       total |-> 0, rowcount |-> Cardinality(SelectById(expenses, pc[p].id)),
                       rows |-> <<>>]
    /\ pc' = [pc EXCEPT ![p] = Idle]
    /\ UNCHANGED <<categories, clock>>

\* ------------------------------------------------------- the tools, all of them
\* Calls arrive one at a time; each runs to its return.

\* a status some expense may have, the empty string, a status no expense has
StatusFilters == {None, Some("paid"), Some(""), Some("refunded")}
\* 0 is never a rowid: it is a category_id no expense of these runs has
CategoryFilters == {None, Some(0)} \cup {Some(c) : c \in CategoryIdArgs}

\* name, description, budget; a second call with the same input stores a second
\* category of that name
CategoryInputs == {<<"Software", Some("Software subscriptions and licenses"), Some(5000)>>,
                   <<"Marketing", None, None>>}
Amounts == {3, 891}

StoreUpdateArgs ==
    {NoArgs}
    \cup {[NoArgs EXCEPT !.status = Some(s)] : s \in {"paid", "pending"}}
    \cup {[NoArgs EXCEPT !.category_id = Some(c)] : c \in CategoryIdArgs}

Next ==
    \/ Tick
    \/ list_categories
    \/ \E in \in CategoryInputs : create_category(in[1], in[2], in[3])
    \/ \E c \in CategoryFilters, s \in StatusFilters : list_expenses(c, s)
    \/ \E a \in Amounts, c \in CategoryIdArgs :
          create_expense("TechSupplies Inc", a, c, "billing@techsupplies.com",
                         Some("2024-12-15"))
    \/ \E id \in ExpenseIdArgs : get_expense(id)
    \/ \E id \in ExpenseIdArgs, args \in StoreUpdateArgs : update_expense(id, args)
    \/ \E id \in ExpenseIdArgs : delete_expense(id)
    \/ get_spending_summary

Spec == Init /\ [][Next]_vars

\* ------------------------------------------ the expense tools, every column varied
\* company_name, amount, category_id, sales_email, due_date
ExpenseInputs ==
    {<<"TechSupplies Inc", 891, 1, "billing@techsupplies.com", None>>,
     <<"Acme", 3, 2, "ar@acme.com", Some("2024-12-15")>>}

\* no field, one field, two fields, all six
FieldUpdateArgs ==
    {NoArgs,
     [NoArgs EXCEPT !.status = Some("paid")],
     [NoArgs EXCEPT !.company_name = Some("Acme")],
     [NoArgs EXCEPT !.sales_email = Some("ar@acme.com"), !.due_date = Some("2024-12-15")],
     [NoArgs EXCEPT !.amount = Some(3), !.category_id = Some(2)],
     [company_name |-> Some("Acme"), amount |-> Some(3), category_id |-> Some(2),
      sales_email |-> Some("ar@acme.com"), due_date |-> Some("2024-12-15"),
      status |-> Some("paid")]}

NextFields ==
    \/ Tick
    \/ \E in \in ExpenseInputs : create_expense(in[1], in[2], in[3], in[4], in[5])
    \/ \E id \in ExpenseIdArgs : get_expense(id)
    \/ \E id \in ExpenseIdArgs, args \in FieldUpdateArgs : update_expense(id, args)
    \/ \E id \in ExpenseIdArgs : delete_expense(id)

SpecFields == Init /\ [][NextFields]_vars

\* ------------------------------------- the status column, any string as argument
\* the documented statuses and a string outside them
StatusArgs == Statuses \cup {"archived"}

NextStatus ==
    \/ create_expense("TechSupplies Inc", 891, 1, "billing@techsupplies.com", None)
    \/ \E id \in ExpenseIdArgs, st \in StatusArgs :
          update_expense(id, [NoArgs EXCEPT !.status = Some(st)])
    \/ \E id \in ExpenseIdArgs : delete_expense(id)

SpecStatus == Init /\ [][NextStatus]_vars

\* --------------------------------------------- concurrent callers of one store
ConcUpdateArgs ==
    {NoArgs, [NoArgs EXCEPT !.status = Some("paid")], [NoArgs EXCEPT !.amount = Some(3)]}

NextConc ==
    \/ create_expense("TechSupplies Inc", 891, 1, "billing@techsupplies.com", None)
    \/ \E p \in Clients, id \in ExpenseIdArgs, args \in ConcUpdateArgs :
          update_expense_select(p, id, args)
    \/ \E p \in Clients : update_expense_write(p)
    \/ \E id \in ExpenseIdArgs : delete_expense(id)

SpecConc == Init /\ [][NextConc]_vars

\* ======================================================================
\* Properties
\* ======================================================================

\* the sum of amount over rows, taken id by id
RECURSIVE AmountUpTo(_, _)
AmountUpTo(rows, n) ==
    IF n = 0 THEN 0
    ELSE (IF \E r \in rows : r.id = n THEN (CHOOSE r \in rows : r.id = n).amount ELSE 0)
         + AmountUpTo(rows, n - 1)

AmountOf(rows) == AmountUpTo(rows, MaxExpenses + 1)

RECURSIVE SumOfTotalSpent(_, _)
SumOfTotalSpent(entries, n) ==
    IF n = 0 THEN 0 ELSE entries[n].total_spent + SumOfTotalSpent(entries, n - 1)

Paid(exps) == {e \in exps : e.status = "paid"}
CategoryIdsOf(cats) == {c.id : c \in cats}
Orphans(cats, exps) == {e \in exps : e.category_id \notin CategoryIdsOf(cats)}

\* C1 (as stated): the total_spending that get_spending_summary returns equals
\* the sum of total_spent over by_category and equals the sum of amount over
\* ALL paid expenses, those whose category_id matches no category included.
C1_TotalIsAllPaid ==
    ret.tool = "get_spending_summary" =>
        /\ ret.total = SumOfTotalSpent(ret.rows, Len(ret.rows))
        /\ ret.total = AmountOf(Paid(expenses))

\* C1 (amended): the total_spending that get_spending_summary returns equals
\* the sum of total_spent over by_category and equals the sum of amount over
\* the paid expenses whose category_id is the id of a stored category; a paid
\* expense whose category_id matches no category is not counted.
C1_TotalIsPaidInCategories ==
    ret.tool = "get_spending_summary" =>
        /\ ret.total = SumOfTotalSpent(ret.rows, Len(ret.rows))
        /\ ret.total = AmountOf(Paid(expenses) \ Orphans(categories, expenses))

\* a summary returned while one paid expense is counted and another is an orphan
C1_Witness ==
    /\ ret.tool = "get_spending_summary"
    /\ ret.total > 0
    /\ Paid(expenses) \cap Orphans(categories, expenses) # {}

\* C5: get_spending_summary returns exactly one by_category entry per stored
\* category, categories of one name each with their own entry and categories
\* without a paid expense with total_spent 0 and expense_count 0; an entry's
\* total_spent is the sum of amount, and its expense_count the number, of the
\* paid expenses with that category's id.
C5_OneEntryPerCategory ==
    ret.tool = "get_spending_summary" =>
        /\ Len(ret.rows) = Cardinality(categories)
        /\ \E f \in [1..Len(ret.rows) -> categories] :
              /\ \A i, j \in 1..Len(ret.rows) : f[i] = f[j] => i = j
              /\ \A i \in 1..Len(ret.rows) :
                    LET mine == {e \in Paid(expenses) : e.category_id = f[i].id}
                    IN  ret.rows[i] = [category |-> f[i].name,
                                       budget |-> f[i].budget_limit,
                                       total_spent |-> AmountOf(mine),
                                       expense_count |-> Cardinality(mine)]

\* a summary of two categories of one name, one with a paid expense, one without
C5_Witness ==
    /\ ret.tool = "get_spending_summary"
    /\ Len(ret.rows) = 2
    /\ ret.rows[1].category = ret.rows[2].category
    /\ ret.rows[1].expense_count = 1
    /\ ret.rows[2].expense_count = 0
    /\ ret.rows[2].total_spent = 0
    /\ Cardinality(expenses) = 2

\* C6: list_categories returns every stored category, once, and the total_spent
\* of a category is 0 while no paid expense has its id as category_id, whatever
\* pending expenses it has and whatever happened to the expenses of others.
C6_ListedWithZeroUntilPaid ==
    ret.tool = "list_categories" =>
        /\ Len(ret.rows) = Cardinality(categories)
        /\ \A c \in categories : \E i \in 1..Len(ret.rows) :
              /\ ret.rows[i].id = c.id
              /\ ret.rows[i].name = c.name
              /\ ret.rows[i].budget_limit = c.budget_limit
        /\ \A i \in 1..Len(ret.rows) :
              (\A e \in expenses : ~(e.category_id = ret.rows[i].id /\ e.status = "paid"))
                  => ret.rows[i].total_spent = 0

\* a listing in which a category with only a pending expense shows 0 beside a
\* category with a paid one
C6_Witness ==
    /\ ret.tool = "list_categories"
    /\ \E i, j \in 1..Len(ret.rows) :
          /\ ret.rows[i].total_spent = 0
          /\ \E e \in expenses : e.category_id = ret.rows[i].id /\ e.status = "pending"
          /\ ret.rows[j].total_spent > 0

\* the expenses that match every filter that is supplied (is not None)
MatchSupplied(exps, c, s) ==
    {e \in exps : /\ c # None => e.category_id = c[1]
                  /\ s # None => e.status = s[1]}

\* the expenses that match every filter that is supplied, an empty status
\* string counting as not supplied
MatchSuppliedNonEmpty(exps, c, s) ==
    {e \in exps : /\ c # None => e.category_id = c[1]
                  /\ (s # None /\ s # Some("")) => e.status = s[1]}

\* C7 (as stated): list_expenses(category_id, status) returns exactly the
\* expenses that match the category_id when one is supplied and the status when
\* one is supplied, for every supplied value, category_id 0 and the empty
\* status string included.
C7_ExactMatchOfSupplied ==
    \A c \in CategoryFilters, s \in StatusFilters :
        /\ Range(ListExpensesRows(expenses, c, s)) = MatchSupplied(expenses, c, s)
        /\ Len(ListExpensesRows(expenses, c, s)) = Cardinality(MatchSupplied(expenses, c, s))

\* C7 (amended): list_expenses(category_id, status) returns exactly the expenses
\* that match the category_id when one is supplied (0 included) and the status
\* when a non-empty one is supplied; an empty status string filters nothing.
C7_ExactMatchOfNonEmpty ==
    /\ \A c \in CategoryFilters, s \in StatusFilters :
          /\ Range(ListExpensesRows(expenses, c, s)) = MatchSuppliedNonEmpty(expenses, c, s)
          /\ Len(ListExpensesRows(expenses, c, s))
                = Cardinality(MatchSuppliedNonEmpty(expenses, c, s))
    /\ ret.tool = "list_expenses" =>
          \E c \in CategoryFilters, s \in StatusFilters :
              Range(ret.rows) = MatchSuppliedNonEmpty(expenses, c, s)

\* a listing that a filter narrowed to one of two expenses
C7_Witness ==
    /\ ret.tool = "list_expenses"
    /\ Len(ret.rows) = 1
    /\ Cardinality(expenses) = 2
    /\ ret.rows[1].status = "paid"

Columns ==
    {"id", "category_id", "company_name", "amount", "sales_email", "due_date", "status",
     "invoice_url", "created_at"}

\* the value column f of a row holds once the argument bundle args is applied
Supplied(args, f) == f \in DOMAIN args /\ args[f] # None
ValueAfter(e, args, f) ==
    IF ~Supplied(args, f) THEN e[f]
    ELSE IF f = "due_date" THEN args[f] ELSE args[f][1]

\* C2: a successful update_expense(id, ...) changes only the supplied fields of
\* the expense with that id: the fields not supplied keep their values, the other
\* expenses and the categories are unchanged.
C2_OnlySuppliedFieldsChange ==
    [][\A id \in ExpenseIdArgs :
          (ret'.tool = "update_expense" /\ ret'.id = id /\ ret'.msg = "updated") =>
              \A args \in FieldUpdateArgs :
                  update_expense(id, args) =>
                      /\ categories' = categories
                      /\ Cardinality(expenses') = Cardinality(expenses)
                      /\ \A e \in expenses : e.id # id => e \in expenses'
                      /\ \A e \in expenses : e.id = id =>
                            \E e2 \in expenses' :
                                \A f \in Columns : e2[f] = ValueAfter(e, args, f)]_vars

\* expense 1 updated to paid a second after its creation, its other columns
\* as created, beside an expense that an earlier update renamed
C2_Witness ==
    /\ ret.tool = "update_expense" /\ ret.msg = "updated" /\ ret.id = 1
    /\ \E e \in expenses :
          /\ e.id = 1 /\ e.status = "paid" /\ e.company_name = "TechSupplies Inc"
          /\ e.amount = 891 /\ e.due_date = None
          /\ e.created_at < clock
    /\ \E e \in expenses :
          /\ e.id = 2 /\ e.company_name = "Acme" /\ e.status = "pending"
          /\ e.amount = 891

\* C3: for an id that matches no stored expense, get_expense, update_expense
\* (with any fields) and delete_expense each return the not-found message and
\* leave the expenses and the categories as they were.
C3_NotFoundForUnknownId ==
    [][\A id \in ExpenseIdArgs :
          (/\ SelectById(expenses, id) = {}
           /\ ret'.id = id
           /\ \/ get_expense(id)
              \/ delete_expense(id)
              \/ \E args \in FieldUpdateArgs : update_expense(id, args))
          => /\ ret'.msg = "not_found"
             /\ expenses' = expenses
             /\ categories' = categories]_vars

\* delete_expense answered not-found for the id of an expense deleted before,
\* another expense being stored
C3_Witness ==
    /\ ret.tool = "delete_expense" /\ ret.msg = "not_found" /\ ret.id = 1
    /\ \E e \in expenses : e.id = 2

\* C4: create_expense stores exactly one new row, with status 'pending', and
\* changes no stored expense and no category, in every state of the store.
C4_CreatedPending ==
    [][ret'.tool = "create_expense" =>
          \A a \in Amounts, c \in CategoryIdArgs :
              create_expense("TechSupplies Inc", a, c, "billing@techsupplies.com",
                             Some("2024-12-15")) =>
                  /\ categories' = categories
                  /\ expenses \subseteq expenses'
                  /\ \E e \in expenses' \ expenses :
                        /\ expenses' = expenses \cup {e}
                        /\ e.status = "pending"
                        /\ \A x \in expenses : x.id # e.id
                        /\ e.amount = a /\ e.category_id = c]_vars

\* a pending expense just created beside a paid one, categories being stored
C4_Witness ==
    /\ ret.tool = "create_expense"
    /\ \E e \in expenses : e.id = ret.id /\ e.status = "pending"
    /\ \E e \in expenses : e.id # ret.id /\ e.status = "paid"
    /\ categories # {}

\* C8: update_expense with no field supplied changes nothing and answers
\* 'No fields to update', or the not-found message when the id matches no
\* expense: the existence check comes first.
C8_NoFieldsNoMutation ==
    [][\A id \in ExpenseIdArgs :
          (ret'.tool = "update_expense" /\ ret'.id = id /\ update_expense(id, NoArgs)) =>
              /\ expenses' = expenses
              /\ categories' = categories
              /\ ret'.msg = IF \E e \in expenses : e.id = id THEN "no_fields"
                            ELSE "not_found"]_vars

\* 'No fields to update' answered for a stored expense
C8_Witness ==
    /\ ret.tool = "update_expense" /\ ret.msg = "no_fields"
    /\ \E e \in expenses : e.id = ret.id /\ e.status = "paid"

\* C9: the status of every stored expense is 'pending', 'paid' or 'cancelled'.
C9_StatusEnumerated == \A e \in expenses : e.status \in Statuses

\* C10: update_expense answers 'updated successfully' only if its UPDATE
\* modified the row, whatever other calls ran between its existence check and
\* its UPDATE.
C10_UpdatedOnlyIfRowModified ==
    (ret.tool = "update_expense" /\ ret.msg = "updated") => ret.rowcount = 1

====
